---- MODULE Spec2Model ----
(***************************************************************************)
(* QueryMind: PDF ingestion and retrieval-augmented answering.             *)
(*                                                                         *)
(* The model covers the two request handlers of backend/api/main.py        *)
(* (ingest_documents, answer_question), the store operations of            *)
(* backend/utils/database.py and the answer pipeline of                    *)
(* backend/utils/rag.py.  The PostgreSQL store is the shared state; every  *)
(* store_document / store_chunk / semantic_search call opens its own       *)
(* session and commits on its own, so each of them is one atomic step and  *)
(* requests interleave between those steps.                                *)
(***************************************************************************)
EXTENDS Integers, Sequences, FiniteSets, TLC

(***************************************************************************)
(* Bounds of the model.                                                    *)
(***************************************************************************)
NumIngest == 2
NumAnswer == 1
MaxFiles == 2
MaxTopK == 1

IngestReqs == 1..NumIngest
AnswerReqs == 1..NumAnswer

(***************************************************************************)
(* Program constants.                                                      *)
(***************************************************************************)
EMBEDDING_DIM == 1536
MIN_FILES == 2
DEFAULT_TOP_K == 5
SNIPPET_LEN == 200
ELLIPSIS_LEN == 3

HTTP_200_OK == 200
HTTP_201_CREATED == 201
HTTP_400_BAD_REQUEST == 400
HTTP_500_INTERNAL_SERVER_ERROR == 500

FALLBACK_ANSWER == "I couldn't find any relevant information in the documents to answer your question."

(***************************************************************************)
(* Strings are sequences of one-character strings.                         *)
(***************************************************************************)
Range(s) == {s[n] : n \in DOMAIN s}

LowerChar(c) ==
    CASE c = "P" -> "p"
      [] c = "D" -> "d"
      [] c = "F" -> "f"
      [] c = "A" -> "a"
      [] OTHER -> c

Lower(s) == [n \in DOMAIN s |-> LowerChar(s[n])]

EndsWith(s, suffix) ==
    /\ Len(s) >= Len(suffix)
    /\ SubSeq(s, Len(s) - Len(suffix) + 1, Len(s)) = suffix

DotPdf == <<".", "p", "d", "f">>

IsPdfName(filename) == EndsWith(Lower(filename), DotPdf)

IsSpace(c) == c \in {" ", "\t", "\n"}

RECURSIVE LStrip(_)
LStrip(s) ==
    IF s = <<>> THEN <<>>
    ELSE IF IsSpace(Head(s)) THEN LStrip(Tail(s)) ELSE s

RECURSIVE RStrip(_)
RStrip(s) ==
    IF s = <<>> THEN <<>>
    ELSE IF IsSpace(s[Len(s)]) THEN RStrip(SubSeq(s, 1, Len(s) - 1)) ELSE s

Strip_Identity(s) == s

Strip(s) == RStrip(LStrip(s))

(***************************************************************************)
(* Data the requests carry.  A text is a tag with its length in            *)
(* characters.  An embedding is a vector of `dim' coordinates of which     *)
(* only the first two (`v') may be non-zero.  An uploaded file is its      *)
(* filename and, for each page, the pieces the text splitter yields for    *)
(* the text of the page (no pieces for an empty page).                     *)
(***************************************************************************)
TAlpha == [tag |-> "alpha", len |-> 150]
TBeta == [tag |-> "beta", len |-> 250]
TGamma == [tag |-> "gamma", len |-> 200]

Vec(x, y) == [dim |-> EMBEDDING_DIM, v |-> <<x, y>>]
Malformed(e) == [e EXCEPT !.dim = EMBEDDING_DIM - 1]

EmbedOf(text) ==
    CASE text.tag = "alpha" -> Vec(1, 0)
      [] text.tag = "beta" -> Vec(0, 1)
      [] OTHER -> Vec(2, 0)

UploadA == [filename |-> <<"a", ".", "p", "d", "f">>, pages |-> << <<TAlpha, TBeta>> >>]
UploadB == [filename |-> <<"b", ".", "P", "D", "F">>, pages |-> << <<>>, <<TGamma>> >>]
UploadC == [filename |-> <<"c", ".", "t", "x", "t">>, pages |-> << <<TAlpha>> >>]

Uploads == {UploadA, UploadB, UploadC}

UploadLists == UNION {[1..n -> Uploads] : n \in 1..MaxFiles}

\* The name tempfile.NamedTemporaryFile gives the copy of the i-th file of request r.
TempName(r, i) == <<r, i>>

(***************************************************************************)
(* document_processor.py                                                   *)
(***************************************************************************)
\* The page counter written where the position in the page belongs.
RECURSIVE EnumeratePage_PageAsIndex(_, _, _)
EnumeratePage_PageAsIndex(page_chunks, page_num, i) ==
    IF i >= Len(page_chunks) THEN <<>>
    ELSE <<[text |-> page_chunks[i + 1],
            page_number |-> page_num + 1,
            chunk_index |-> page_num]>>
         \o EnumeratePage_PageAsIndex(page_chunks, page_num, i + 1)

RECURSIVE EnumeratePage(_, _, _)
EnumeratePage(page_chunks, page_num, i) ==
    IF i >= Len(page_chunks) THEN <<>>
    ELSE <<[text |-> page_chunks[i + 1],
            page_number |-> page_num + 1,
            chunk_index |-> i]>>
         \o EnumeratePage(page_chunks, page_num, i + 1)

RECURSIVE ChunkFrom(_, _)
ChunkFrom(texts, page_num) ==
    IF page_num >= Len(texts) THEN <<>>
    ELSE LET page_text == texts[page_num + 1]
         IN  IF page_text = <<>>
             THEN ChunkFrom(texts, page_num + 1)
             ELSE EnumeratePage(page_text, page_num, 0)
                  \o ChunkFrom(texts, page_num + 1)

chunk_text(texts) == ChunkFrom(texts, 0)

\* bad = 0: the provider returns a well-formed vector for every text;
\* bad = m > 0: the m-th vector it returns has the wrong dimension.
create_embeddings(chunks, bad) ==
    [n \in DOMAIN chunks |->
        [text |-> chunks[n].text,
         page_number |-> chunks[n].page_number,
         chunk_index |-> chunks[n].chunk_index,
         embedding |-> IF n = bad THEN Malformed(EmbedOf(chunks[n].text))
                       ELSE EmbedOf(chunks[n].text)]]

process_pdf(upload, temp_path, bad) ==
    [filename |-> temp_path,
     total_pages |-> Len(upload.pages),
     chunks |-> create_embeddings(chunk_text(upload.pages), bad)]

(***************************************************************************)
(* State.                                                                  *)
(*   documents        rows of table "documents"                            *)
(*   document_chunks  rows of table "document_chunks", in insertion order  *)
(*   docSeq           next value of the documents.id sequence              *)
(*   tmpFiles         temporary files that exist on disk                   *)
(*   ingest           per ingest request: position and locals of           *)
(*                    ingest_documents                                     *)
(*   answer           per answer request: position and locals of           *)
(*                    answer_question / answer_query                       *)
(*   origin           history: for each document id, the request and file  *)
(*                    that created the row and the number of chunks        *)
(*                    process_pdf produced for it                          *)
(***************************************************************************)
VARIABLES documents, document_chunks, docSeq, tmpFiles, ingest, answer, origin

vars == <<documents, document_chunks, docSeq, tmpFiles, ingest, answer, origin>>
storeVars == <<documents, document_chunks, docSeq, origin>>

NoDoc == [filename |-> <<>>, total_pages |-> 0, chunks |-> <<>>]
NoIngestResponse == [status |-> 0, detail |-> "", documents |-> <<>>]

IngestIdle ==
    [pc |-> "idle", files |-> <<>>, i |-> 0, processed_doc |-> NoDoc,
     document |-> 0, j |-> 0, processed_docs |-> <<>>,
     response |-> NoIngestResponse, raised |-> "none"]

(***************************************************************************)
(* database.py: store_document, store_chunk                                *)
(***************************************************************************)
DocumentRow(id, filename, total_pages) ==
    [id |-> id, filename |-> filename, total_pages |-> total_pages]

DocumentChunkRow(document_id, chunk) ==
    [document_id |-> document_id,
     text |-> chunk.text,
     chunk_index |-> chunk.chunk_index,
     page_number |-> chunk.page_number,
     embedding |-> chunk.embedding]

\* Column(Vector(1536)): the store refuses a vector of another dimension.
VectorAccepted(embedding) == embedding.dim = EMBEDDING_DIM

ChunksOf(id) == SelectSeq(document_chunks, LAMBDA c : c.document_id = id)

(***************************************************************************)
(* main.py: ingest_documents                                               *)
(***************************************************************************)
TooFewFiles_OffByOne(files) == Len(files) < MIN_FILES - 1

TooFewFiles(files) == Len(files) < MIN_FILES

NotAPdf_FirstOnly(files) == ~IsPdfName(files[1].filename)

NotAPdf(files) == \E n \in DOMAIN files : ~IsPdfName(files[n].filename)

\* "finally: os.unlink(temp_path)" of the file being processed.
Unlink(r) == tmpFiles \ {TempName(r, ingest[r].i)}

\* A handler that records the failure of the file and goes on with the next.
IngestRaise_Continue(r, stage) ==
    LET st == ingest[r]
    IN  /\ tmpFiles' = Unlink(r)
        /\ IF st.i < Len(st.files)
           THEN ingest' = [ingest EXCEPT ![r] =
                    [@ EXCEPT !.pc = "save", !.i = st.i + 1, !.raised = stage]]
           ELSE ingest' = [ingest EXCEPT ![r] =
                    [@ EXCEPT !.pc = "done", !.raised = stage,
                              !.response = [status |-> HTTP_201_CREATED,
                                            detail |-> "Successfully processed",
                                            documents |-> st.processed_docs]]]

\* "except Exception: raise HTTPException(500, ...)" with its "finally".
IngestRaise(r, stage) ==
    /\ ingest' = [ingest EXCEPT ![r] =
          [@ EXCEPT !.pc = "done",
                    !.raised = stage,
                    !.response = [status |-> HTTP_500_INTERNAL_SERVER_ERROR,
                                  detail |-> "Error processing",
                                  documents |-> <<>>]]]
    /\ tmpFiles' = Unlink(r)

\* The end of the loop body for the current file: the result is appended,
\* the temp file is unlinked, and the loop goes on or the handler returns.
IngestFileDone(r, document) ==
    LET st == ingest[r]
        docs == Append(st.processed_docs,
                       [filename |-> st.processed_doc.filename,
                        total_pages |-> st.processed_doc.total_pages,
                        total_chunks |-> Len(st.processed_doc.chunks)])
    IN  /\ tmpFiles' = Unlink(r)
        /\ IF st.i < Len(st.files)
           THEN ingest' = [ingest EXCEPT ![r] =
                    [@ EXCEPT !.pc = "save", !.i = st.i + 1,
                              !.document = document,
                              !.j = Len(st.processed_doc.chunks),
                              !.processed_docs = docs]]
           ELSE ingest' = [ingest EXCEPT ![r] =
                    [@ EXCEPT !.pc = "done",
                              !.document = document,
                              !.j = Len(st.processed_doc.chunks),
                              !.processed_docs = docs,
                              !.response = [status |-> HTTP_201_CREATED,
                                            detail |-> "Successfully processed",
                                            documents |-> docs]]]

\* Entry of the handler: the two validation checks of lines 94-102.
IngestStart(r, files) ==
    /\ ingest[r].pc = "idle"
    /\ IF TooFewFiles(files)
       THEN ingest' = [ingest EXCEPT ![r] =
                [@ EXCEPT !.pc = "done", !.files = files,
                          !.response = [status |-> HTTP_400_BAD_REQUEST,
                                        detail |-> "Please upload at least 2 PDF files",
                                        documents |-> <<>>]]]
       ELSE IF NotAPdf(files)
       THEN ingest' = [ingest EXCEPT ![r] =
                [@ EXCEPT !.pc = "done", !.files = files,
                          !.response = [status |-> HTTP_400_BAD_REQUEST,
                                        detail |-> "File is not a PDF",
                                        documents |-> <<>>]]]
       ELSE ingest' = [ingest EXCEPT ![r] =
                [@ EXCEPT !.pc = "save", !.files = files, !.i = 1]]
    /\ UNCHANGED <<storeVars, tmpFiles, answer>>

\* Lines 112-114: the temp file is created, then the upload is read and
\* written into it.  This is outside the try block: when the read or the
\* write raises, the file stays and the request ends with a server error.
IngestSaveTemp(r, ok) ==
    /\ ingest[r].pc = "save"
    /\ tmpFiles' = tmpFiles \cup {TempName(r, ingest[r].i)}
    /\ IF ok
       THEN ingest' = [ingest EXCEPT ![r] =
                [@ EXCEPT !.pc = "process", !.processed_doc = NoDoc,
                          !.document = 0, !.j = 0]]
       ELSE ingest' = [ingest EXCEPT ![r] =
                [@ EXCEPT !.pc = "done", !.raised = "save",
                          !.response = [status |-> HTTP_500_INTERNAL_SERVER_ERROR,
                                        detail |-> "Internal Server Error",
                                        documents |-> <<>>]]]
    /\ UNCHANGED <<storeVars, answer>>

\* Line 118: process_pdf.  Extraction or the embedding call may raise;
\* otherwise the provider's vectors are attached to the chunks.
IngestProcessPdf(r, ok, bad) ==
    /\ ingest[r].pc = "process"
    /\ IF ok
       THEN LET st == ingest[r]
                doc == process_pdf(st.files[st.i], TempName(r, st.i), bad)
            IN  /\ ingest' = [ingest EXCEPT ![r] =
                      [@ EXCEPT !.pc = "store_document", !.processed_doc = doc]]
                /\ UNCHANGED tmpFiles
       ELSE /\ bad = 0
            /\ IngestRaise(r, "process_pdf")
    /\ UNCHANGED <<storeVars, answer>>

\* Lines 121-124: store_document commits the document row.
IngestStoreDocument(r, ok) ==
    /\ ingest[r].pc = "store_document"
    /\ IF ok
       THEN LET st == ingest[r]
                id == docSeq
            IN  /\ documents' = documents \cup
                      {DocumentRow(id, st.processed_doc.filename,
                                   st.processed_doc.total_pages)}
                /\ docSeq' = docSeq + 1
                /\ origin' = [d \in DOMAIN origin \cup {id} |->
                                 IF d = id
                                 THEN [req |-> r, file |-> st.i,
                                       chunks |-> Len(st.processed_doc.chunks)]
                                 ELSE origin[d]]
                /\ IF st.processed_doc.chunks = <<>>
                   THEN IngestFileDone(r, id)
                   ELSE /\ ingest' = [ingest EXCEPT ![r] =
                              [@ EXCEPT !.pc = "store_chunk",
                                        !.document = id, !.j = 0]]
                        /\ UNCHANGED tmpFiles
                /\ UNCHANGED document_chunks
       ELSE /\ IngestRaise(r, "store_document")
            /\ UNCHANGED storeVars
    /\ UNCHANGED answer

\* A handler that takes the id of the row created last in the store.
DocumentId_Latest(r) == docSeq - 1

\* A handler that takes the value the id sequence will hand out next.
DocumentId_Next(r) == docSeq

\* Line 129: document.id, the id of the row this request's store_document
\* call returned for the current file.
DocumentId(r) == ingest[r].document

\* Lines 127-134: one iteration of the chunk loop; store_chunk commits one
\* chunk row.  It raises when the store refuses the vector or fails.
IngestStoreChunk(r, ok) ==
    /\ ingest[r].pc = "store_chunk"
    /\ LET st == ingest[r]
           chunk == st.processed_doc.chunks[st.j + 1]
       IN  IF ok /\ VectorAccepted(chunk.embedding)
           THEN /\ document_chunks' =
                      Append(document_chunks, DocumentChunkRow(DocumentId(r), chunk))
                /\ IF st.j + 1 = Len(st.processed_doc.chunks)
                   THEN IngestFileDone(r, st.document)
                   ELSE /\ ingest' = [ingest EXCEPT ![r] = [@ EXCEPT !.j = st.j + 1]]
                        /\ UNCHANGED tmpFiles
           ELSE /\ IngestRaise(r, "store_chunk")
                /\ UNCHANGED document_chunks
    /\ UNCHANGED <<documents, docSeq, origin, answer>>

(***************************************************************************)
(* database.py: semantic_search                                            *)
(*                                                                         *)
(* ORDER BY embedding <=> query LIMIT limit.  The cosine distance of a     *)
(* and q is 1 - (a.q) / (|a| |q|); distances are compared without square   *)
(* roots.  Rows at the same distance come back in an order the store       *)
(* chooses.                                                                *)
(***************************************************************************)
Dot(a, b) == a[1] * b[1] + a[2] * b[2]

\* cosine_distance(q, a) <= cosine_distance(q, b)
AtMostAsFar(q, a, b) ==
    LET p == Dot(q.v, a.v)
        m == Dot(a.v, a.v)
        t == Dot(q.v, b.v)
        n == Dot(b.v, b.v)
    IN  IF p >= 0 /\ t >= 0 THEN p * p * n >= t * t * m
        ELSE IF p >= 0 THEN TRUE
        ELSE IF t >= 0 THEN FALSE
        ELSE p * p * n <= t * t * m

Nearest(q, rows) ==
    {a \in rows : \A b \in rows :
        AtMostAsFar(q, document_chunks[a].embedding, document_chunks[b].embedding)}

\* A ranking that stops one row short of the end of the table.
RECURSIVE RankFrom_DropsLast(_, _, _)
RankFrom_DropsLast(q, rows, limit) ==
    IF limit = 0 \/ Cardinality(rows) <= 1 THEN {<<>>}
    ELSE UNION {{<<a>> \o rest : rest \in RankFrom_DropsLast(q, rows \ {a}, limit - 1)} :
                    a \in Nearest(q, rows)}

RECURSIVE RankFrom(_, _, _)
RankFrom(q, rows, limit) ==
    IF limit = 0 \/ rows = {} THEN {<<>>}
    ELSE UNION {{<<a>> \o rest : rest \in RankFrom(q, rows \ {a}, limit - 1)} :
                    a \in Nearest(q, rows)}

\* The results the query may return, as sequences of chunk rows.
semantic_search(query_embedding, limit) ==
    {[n \in DOMAIN ids |-> document_chunks[ids[n]]] :
        ids \in RankFrom(query_embedding, DOMAIN document_chunks, limit)}

(***************************************************************************)
(* rag.py                                                                  *)
(***************************************************************************)
Questions ==
    {<<>>, <<" ">>, <<" ", "\t">>, <<"a">>, <<" ", "b", " ">>}

TopKs == (0 - MaxTopK)..MaxTopK

LLMAnswers == {"generated answer"}

generate_query_embedding(query) ==
    IF "a" \in Range(query) THEN Vec(1, 0) ELSE Vec(1, 1)

\* Lines 51-58 of retrieve_relevant_chunks: the caller-facing shape.
FormatResults(chunks) ==
    [n \in DOMAIN chunks |->
        [text |-> chunks[n].text,
         document_id |-> chunks[n].document_id,
         page_number |-> chunks[n].page_number,
         chunk_index |-> chunks[n].chunk_index]]

Snippet_NoTruncate(text) == text

\* text[:200] + "..." if len(text) > 200 else text
Snippet(text) ==
    IF text.len > SNIPPET_LEN
    THEN [tag |-> text.tag, len |-> SNIPPET_LEN + ELLIPSIS_LEN]
    ELSE text

\* Lines 139-145 of answer_query.
FormatSources(chunks) ==
    [n \in DOMAIN chunks |->
        [document_id |-> chunks[n].document_id,
         page_number |-> chunks[n].page_number,
         text_snippet |-> Snippet(chunks[n].text)]]

NoChunks_Never(chunks) == FALSE

\* Line 133 of answer_query: "if not chunks".
NoChunks(chunks) == chunks = <<>>

NoAnswerResponse == [status |-> 0, answer |-> "", sources |-> <<>>]

AnswerIdle ==
    [pc |-> "idle", entry |-> "none", question |-> <<>>, top_k |-> 0,
     trace |-> <<>>, query_embedding |-> Vec(0, 0), chunks |-> <<>>,
     response |-> NoAnswerResponse, raised |-> "none"]

\* A handler that swallows the exception and answers with the fallback.
AnswerRaise_Fallback(q, stage, trace) ==
    answer' = [answer EXCEPT ![q] =
        [@ EXCEPT !.pc = "done", !.raised = stage, !.trace = trace,
                  !.response = [status |-> HTTP_200_OK,
                                answer |-> FALLBACK_ANSWER,
                                sources |-> <<>>]]]

\* A pipeline that stays at the failed step and so runs it again.
AnswerRaise_Retry(q, stage, trace) ==
    answer' = [answer EXCEPT ![q] = [@ EXCEPT !.trace = trace]]

\* An exception leaves the pipeline: answer_question turns it into a 500
\* (lines 183-187); a direct caller of retrieve_relevant_chunks gets it.
AnswerRaise(q, stage, trace) ==
    answer' = [answer EXCEPT ![q] =
        [@ EXCEPT !.pc = "done", !.raised = stage, !.trace = trace,
                  !.response =
                      IF answer[q].entry = "answer"
                      THEN [status |-> HTTP_500_INTERNAL_SERVER_ERROR,
                            answer |-> "Error generating answer",
                            sources |-> <<>>]
                      ELSE NoAnswerResponse]]

\* main.py lines 174-180: answer_question up to the call of answer_query,
\* which calls retrieve_relevant_chunks with the default top_k.
AnswerStart(q, question) ==
    /\ answer[q].pc = "idle"
    /\ IF Strip(question) = <<>>
       THEN answer' = [answer EXCEPT ![q] =
                [@ EXCEPT !.pc = "done", !.entry = "answer",
                          !.question = question,
                          !.response = [status |-> HTTP_400_BAD_REQUEST,
                                        answer |-> "Question cannot be empty",
                                        sources |-> <<>>]]]
       ELSE answer' = [answer EXCEPT ![q] =
                [@ EXCEPT !.pc = "embed", !.entry = "answer",
                          !.question = question, !.top_k = DEFAULT_TOP_K]]
    /\ UNCHANGED <<storeVars, tmpFiles, ingest>>

\* A direct call retrieve_relevant_chunks(query, top_k).
RetrieveStart(q, query, top_k) ==
    /\ answer[q].pc = "idle"
    /\ answer' = [answer EXCEPT ![q] =
          [@ EXCEPT !.pc = "embed", !.entry = "retrieve",
                    !.question = query, !.top_k = top_k]]
    /\ UNCHANGED <<storeVars, tmpFiles, ingest>>

\* rag.py line 45: the embedding call to the provider.
GenerateQueryEmbedding(q, ok) ==
    /\ answer[q].pc = "embed"
    /\ LET trace == Append(answer[q].trace, "embed")
       IN  IF ok
           THEN answer' = [answer EXCEPT ![q] =
                    [@ EXCEPT !.pc = "search", !.trace = trace,
                              !.query_embedding =
                                  generate_query_embedding(answer[q].question)]]
           ELSE AnswerRaise(q, "embed", trace)
    /\ UNCHANGED <<storeVars, tmpFiles, ingest>>

\* rag.py lines 48-60, and for answer_query lines 133-150 when no chunk
\* came back: the fallback answer with no sources, without a model call.
\* The store rejects a negative LIMIT with an error.
RetrieveChunks(q, ok) ==
    /\ answer[q].pc = "search"
    /\ LET st == answer[q]
           trace == Append(st.trace, "retrieve")
       IN  IF ok /\ st.top_k >= 0
           THEN \E found \in semantic_search(st.query_embedding, st.top_k) :
                    LET results == FormatResults(found)
                    IN  IF st.entry = "retrieve"
                        THEN answer' = [answer EXCEPT ![q] =
                                 [@ EXCEPT !.pc = "done", !.trace = trace,
                                           !.chunks = results]]
                        ELSE IF NoChunks(results)
                        THEN answer' = [answer EXCEPT ![q] =
                                 [@ EXCEPT !.pc = "done", !.trace = trace,
                                           !.chunks = results,
                                           !.response =
                                               [status |-> HTTP_200_OK,
                                                answer |-> FALLBACK_ANSWER,
                                                sources |-> FormatSources(results)]]]
                        ELSE answer' = [answer EXCEPT ![q] =
                                 [@ EXCEPT !.pc = "synthesize", !.trace = trace,
                                           !.chunks = results]]
           ELSE AnswerRaise(q, "retrieve", trace)
    /\ UNCHANGED <<storeVars, tmpFiles, ingest>>

\* rag.py line 136 and lines 139-150: the model call, then the response.
GenerateAnswer(q, ok) ==
    /\ answer[q].pc = "synthesize"
    /\ LET st == answer[q]
           trace == Append(st.trace, "synthesize")
       IN  IF ok
           THEN \E text \in LLMAnswers :
                    answer' = [answer EXCEPT ![q] =
                        [@ EXCEPT !.pc = "done", !.trace = trace,
                                  !.response =
                                      [status |-> HTTP_200_OK,
                                       answer |-> text,
                                       sources |-> FormatSources(st.chunks)]]]
           ELSE AnswerRaise(q, "synthesize", trace)
    /\ UNCHANGED <<storeVars, tmpFiles, ingest>>

(***************************************************************************)
(* Specification.                                                          *)
(***************************************************************************)
Init ==
    /\ documents = {}
    /\ document_chunks = <<>>
    /\ docSeq = 1
    /\ tmpFiles = {}
    /\ ingest = [r \in IngestReqs |-> IngestIdle]
    /\ answer = [q \in AnswerReqs |-> AnswerIdle]
    /\ origin = <<>>

\* What the embedding provider may do to the vectors of the current file:
\* 0 for none malformed, m for the m-th malformed.
VectorFaults(r) ==
    IF ingest[r].pc = "process"
    THEN 0..Len(chunk_text(ingest[r].files[ingest[r].i].pages))
    ELSE {0}

IngestNext(r) ==
    \/ \E files \in UploadLists : IngestStart(r, files)
    \/ \E ok \in BOOLEAN : IngestSaveTemp(r, ok)
    \/ \E ok \in BOOLEAN, bad \in VectorFaults(r) : IngestProcessPdf(r, ok, bad)
    \/ \E ok \in BOOLEAN : IngestStoreDocument(r, ok)
    \/ \E ok \in BOOLEAN : IngestStoreChunk(r, ok)

AnswerNext(q) ==
    \/ \E question \in Questions : AnswerStart(q, question)
    \/ \E query \in Questions, top_k \in TopKs : RetrieveStart(q, query, top_k)
    \/ \E ok \in BOOLEAN : GenerateQueryEmbedding(q, ok)
    \/ \E ok \in BOOLEAN : RetrieveChunks(q, ok)
    \/ \E ok \in BOOLEAN : GenerateAnswer(q, ok)

\* One ingest request running concurrently with the answer requests.
Next ==
    \/ IngestNext(1)
    \/ \E q \in AnswerReqs : AnswerNext(q)

Spec == Init /\ [][Next]_vars

(***************************************************************************)
(* Properties of ingestion.                                                *)
(***************************************************************************)
DocStages == {"process_pdf", "store_document", "store_chunk"}

HasRow(id) == \E d \in documents : d.id = id

\* The document is stored with every chunk process_pdf produced for it.
Complete(id) == HasRow(id) /\ Len(ChunksOf(id)) = origin[id].chunks

\* Neither the row nor any chunk of the document is stored.
Absent(id) == ~HasRow(id) /\ ChunksOf(id) = <<>>

CreatedBy(r) == {id \in DOMAIN origin : origin[id].req = r}

AllIngestsEnded == \A r \in IngestReqs : ingest[r].pc \in {"idle", "done"}

\* C1: ingestion of one document is all-or-nothing.  When store_chunk
\* raises for a document, the store holds neither its row nor any of its
\* chunks once the request has ended, and when every request has ended no
\* stored document has only a part of its chunks.
C1_AllOrNothing ==
    /\ \A r \in IngestReqs :
          (ingest[r].pc = "done" /\ ingest[r].raised = "store_chunk")
              => Absent(ingest[r].document)
    /\ AllIngestsEnded => \A id \in DOMAIN origin : Complete(id) \/ Absent(id)

\* C2: a search that runs concurrently with an ingestion never observes a
\* half-written document: whenever a reader is about to issue
\* semantic_search, every document is absent with none of its chunks or
\* present with all of them.
C2_ReaderNeverSeesPartial ==
    \A q \in AnswerReqs :
        answer[q].pc = "search"
            => \A id \in DOMAIN origin : Complete(id) \/ Absent(id)

\* C3 as stated: a failure while processing one document is isolated to
\* that document; the other documents of the request are still processed
\* and stored and the response reports per document.
C3_PerItemIsolation ==
    \A r \in IngestReqs :
        (ingest[r].pc = "done" /\ ingest[r].raised \in DocStages)
            => /\ \A n \in DOMAIN ingest[r].files \ {ingest[r].i} :
                      \E id \in CreatedBy(r) : origin[id].file = n
               /\ ingest[r].response.status = HTTP_201_CREATED

\* C3 amended: a failure while processing one document ends the whole
\* request with a single server error and no per-document results; the
\* documents listed before it stay stored with all their chunks, and the
\* documents listed after it are never processed.
C3_FailureAbortsRequest ==
    \A r \in IngestReqs :
        (ingest[r].pc = "done" /\ ingest[r].raised \in DocStages)
            => /\ ingest[r].response.status = HTTP_500_INTERNAL_SERVER_ERROR
               /\ ingest[r].response.documents = <<>>
               /\ Len(ingest[r].processed_docs) = ingest[r].i - 1
               /\ \A id \in CreatedBy(r) : origin[id].file <= ingest[r].i
               /\ \A n \in 1..(ingest[r].i - 1) :
                      \E id \in CreatedBy(r) :
                          origin[id].file = n /\ Complete(id)

C3_Witness ==
    \E r \in IngestReqs :
        /\ ingest[r].pc = "done"
        /\ ingest[r].raised \in DocStages
        /\ ingest[r].i = 1
        /\ Len(ingest[r].files) >= 2

NoTraceOf(r) ==
    /\ CreatedBy(r) = {}
    /\ \A n \in 1..(MaxFiles + 1) : TempName(r, n) \notin tmpFiles
    /\ ingest[r].i = 0
    /\ ingest[r].processed_docs = <<>>

\* C4: an ingest request with fewer than 2 files is rejected with a 400
\* before any work: it never gets past validation, it creates no temp
\* file and no row of the store belongs to it.
C4_SingleFileRejected ==
    \A r \in IngestReqs :
        (ingest[r].pc # "idle" /\ Len(ingest[r].files) < 2)
            => /\ ingest[r].pc = "done"
               /\ ingest[r].response.status = HTTP_400_BAD_REQUEST
               /\ NoTraceOf(r)
               /\ (\A o \in IngestReqs \ {r} : ingest[o].pc = "idle")
                      => documents = {} /\ document_chunks = <<>> /\ tmpFiles = {}

C4_Witness ==
    \E r \in IngestReqs :
        /\ ingest[r].pc = "done"
        /\ Len(ingest[r].files) = 1
        /\ ingest[r].response.status = HTTP_400_BAD_REQUEST

PdfSuffixes ==
    {<<".", p, d, f>> : p \in {"p", "P"}, d \in {"d", "D"}, f \in {"f", "F"}}

NamedPdf(upload) ==
    /\ Len(upload.filename) >= 4
    /\ SubSeq(upload.filename, Len(upload.filename) - 3, Len(upload.filename))
           \in PdfSuffixes

\* C5: when any file of an ingest request, at any position, has no .pdf
\* filename, the whole request is rejected with a 400 before any file is
\* processed: no document row and no chunk of any of its files is stored.
C5_NonPdfRejectsAll ==
    \A r \in IngestReqs :
        (ingest[r].pc # "idle"
            /\ \E n \in DOMAIN ingest[r].files : ~NamedPdf(ingest[r].files[n]))
            => /\ ingest[r].pc = "done"
               /\ ingest[r].response.status = HTTP_400_BAD_REQUEST
               /\ NoTraceOf(r)

C5_Witness ==
    \E r \in IngestReqs :
        /\ ingest[r].pc = "done"
        /\ Len(ingest[r].files) = 2
        /\ NamedPdf(ingest[r].files[1])
        /\ ~NamedPdf(ingest[r].files[2])
        /\ ingest[r].response.status = HTTP_400_BAD_REQUEST

(***************************************************************************)
(* Properties of the answer pipeline.                                      *)
(***************************************************************************)
Pipeline == <<"embed", "retrieve", "synthesize">>

IsPrefix(s, t) == Len(s) <= Len(t) /\ SubSeq(t, 1, Len(s)) = s

Ran(q, step) == step \in Range(answer[q].trace)

Blank(question) == \A n \in DOMAIN question : question[n] \in {" ", "\t", "\n"}

\* C6: an answer request whose question is empty or whitespace-only is
\* rejected with a 400 before any pipeline work: no query embedding, no
\* store search and no model call is made for it.
C6_BlankQuestionRejected ==
    \A q \in AnswerReqs :
        (answer[q].entry = "answer" /\ Blank(answer[q].question))
            => /\ answer[q].pc = "done"
               /\ answer[q].response.status = HTTP_400_BAD_REQUEST
               /\ answer[q].trace = <<>>

C6_Witness ==
    \E q \in AnswerReqs :
        /\ answer[q].entry = "answer"
        /\ answer[q].question = <<" ", "\t">>
        /\ answer[q].response.status = HTTP_400_BAD_REQUEST

\* Retrieval has returned to answer_query, and with no chunk.
RetrievedNothing(q) ==
    /\ answer[q].entry = "answer"
    /\ Ran(q, "retrieve")
    /\ answer[q].raised # "retrieve"
    /\ answer[q].chunks = <<>>

\* C7: when retrieval yields no chunks, answer_query returns the fixed
\* fallback answer with an empty sources list, without a model call and
\* without an error.
C7_EmptyRetrievalFallback ==
    \A q \in AnswerReqs :
        RetrievedNothing(q)
            => /\ answer[q].pc = "done"
               /\ answer[q].raised = "none"
               /\ ~Ran(q, "synthesize")
               /\ answer[q].response = [status |-> HTTP_200_OK,
                                        answer |-> FALLBACK_ANSWER,
                                        sources |-> <<>>]

C7_Witness ==
    \E q \in AnswerReqs : RetrievedNothing(q) /\ document_chunks = <<>>

\* C8: a failure of the model call always ends the request with an error,
\* never with a successful response, and a successful response carries the
\* fallback answer only when retrieval returned no chunk and the model was
\* not called.
C8_SynthesisErrorDistinct ==
    \A q \in AnswerReqs :
        /\ answer[q].raised = "synthesize"
              => /\ answer[q].pc = "done"
                 /\ answer[q].response.status = HTTP_500_INTERNAL_SERVER_ERROR
                 /\ answer[q].response.answer # FALLBACK_ANSWER
        /\ (answer[q].response.status = HTTP_200_OK
               /\ answer[q].response.answer = FALLBACK_ANSWER)
              => /\ answer[q].chunks = <<>>
                 /\ answer[q].raised = "none"
                 /\ ~Ran(q, "synthesize")

C8_Witness ==
    \E q \in AnswerReqs :
        /\ answer[q].pc = "done"
        /\ answer[q].raised = "synthesize"
        /\ answer[q].chunks # <<>>

\* C9: every answer request runs embed, retrieve, synthesize in that order,
\* each at most once; it ends after retrieve with the fallback when no chunk
\* came back and after synthesize otherwise; a failing step ends the request
\* with an error and no later step runs.
C9_PipelineOrder ==
    \A q \in AnswerReqs :
        answer[q].entry = "answer"
            => LET st == answer[q]
               IN  /\ IsPrefix(st.trace, Pipeline)
                   /\ st.pc = "embed" => st.trace = <<>>
                   /\ st.pc = "search" => st.trace = <<"embed">>
                   /\ st.pc = "synthesize"
                         => st.trace = <<"embed", "retrieve">> /\ st.chunks # <<>>
                   /\ st.raised # "none"
                         => /\ st.pc = "done"
                            /\ st.trace # <<>>
                            /\ st.trace[Len(st.trace)] = st.raised
                            /\ st.response.status = HTTP_500_INTERNAL_SERVER_ERROR
                   /\ (st.pc = "done" /\ st.raised = "none"
                          /\ st.response.status = HTTP_200_OK)
                         => IF st.chunks = <<>>
                            THEN st.trace = <<"embed", "retrieve">>
                            ELSE st.trace = Pipeline

C9_Witness ==
    \E q \in AnswerReqs :
        /\ answer[q].entry = "answer"
        /\ answer[q].pc = "done"
        /\ answer[q].trace = Pipeline
        /\ answer[q].response.status = HTTP_200_OK

\* C10: retrieve_relevant_chunks called with top_k <= 0 is rejected as
\* invalid input: the call ends with an error and issues no store search.
C10_NonPositiveTopKRejected ==
    \A q \in AnswerReqs :
        (answer[q].entry = "retrieve" /\ answer[q].top_k <= 0
            /\ answer[q].pc = "done")
            => /\ answer[q].raised # "none"
               /\ ~Ran(q, "retrieve")

(***************************************************************************)
(* Properties of the search.                                               *)
(***************************************************************************)
\* The step in which the store answers the search of request q.
SearchReturns(q) ==
    /\ answer[q].pc = "search"
    /\ answer'[q].pc # "search"
    /\ answer'[q].raised = "none"

\* The ranking by ascending distance in which rows at the same distance
\* keep their insertion order.
RECURSIVE StableRank(_, _, _)
StableRank(q, rows, limit) ==
    IF limit = 0 \/ rows = {} THEN <<>>
    ELSE LET first == CHOOSE a \in Nearest(q, rows) :
                          \A b \in Nearest(q, rows) : a <= b
         IN  <<first>> \o StableRank(q, rows \ {first}, limit - 1)

RowsAt(ids) == [n \in DOMAIN ids |-> document_chunks[ids[n]]]

\* C11: semantic_search returns the k stored chunks nearest to the query in
\* ascending cosine distance, and chunks at the same distance come back in
\* insertion order, earliest first, also when the tie straddles position k.
C11_StableTopK ==
    [][\A q \in AnswerReqs :
          SearchReturns(q)
              => answer'[q].chunks =
                     FormatResults(RowsAt(StableRank(answer[q].query_embedding,
                                                     DOMAIN document_chunks,
                                                     answer[q].top_k)))]_vars

\* C12: retrieval is deterministic: for a given question, top_k and store
\* there is one result only, so that two identical calls against an
\* unchanged store return the same chunks in the same order, also when
\* stored chunks are equidistant from the query.
C12_DeterministicRetrieval ==
    \A q \in AnswerReqs :
        (answer[q].pc = "search" /\ answer[q].top_k >= 0)
            => Cardinality({FormatResults(found) :
                   found \in semantic_search(answer[q].query_embedding,
                                             answer[q].top_k)}) = 1

\* The row of the store a retrieved chunk was made from.
RowOf(chunk) ==
    CHOOSE n \in DOMAIN document_chunks :
        FormatResults(<<document_chunks[n]>>)[1] = chunk

\* C13: when top_k exceeds the number N of stored chunks, the search
\* returns all N chunks, each exactly once, in ascending distance, and the
\* query itself has a result (no error); top_k = 5 against 2 stored chunks
\* returns those 2.
C13_AllChunksWhenKExceeds ==
    /\ [](\A q \in AnswerReqs :
            (answer[q].pc = "search" /\ answer[q].top_k > Len(document_chunks))
                => semantic_search(answer[q].query_embedding, answer[q].top_k) # {})
    /\ [][\A q \in AnswerReqs :
            (SearchReturns(q) /\ answer[q].top_k > Len(document_chunks))
                => LET res == answer'[q].chunks
                       emb(n) == document_chunks[RowOf(res[n])].embedding
                   IN  /\ Len(res) = Len(document_chunks)
                       /\ \A n \in DOMAIN document_chunks :
                              Cardinality({m \in DOMAIN res : RowOf(res[m]) = n}) = 1
                       /\ \A a, b \in DOMAIN res :
                              a < b => AtMostAsFar(answer[q].query_embedding,
                                                   emb(a), emb(b))]_vars

C13_Witness ==
    \E q \in AnswerReqs :
        /\ answer[q].top_k = DEFAULT_TOP_K
        /\ answer[q].pc = "done"
        /\ answer[q].raised = "none"
        /\ Len(answer[q].chunks) = 2
        /\ Len(document_chunks) = 2

(***************************************************************************)
(* Properties of the sources list.                                         *)
(***************************************************************************)
\* C14 as stated: the text_snippet of every entry of the sources list is at
\* most 200 characters long.
C14_SnippetAtMost200 ==
    \A q \in AnswerReqs :
        \A n \in DOMAIN answer[q].response.sources :
            answer[q].response.sources[n].text_snippet.len <= SNIPPET_LEN

\* C14 amended: the text_snippet is the chunk text itself when that has at
\* most 200 characters, and otherwise its first 200 characters followed by
\* a 3-character ellipsis, so it is never longer than 203 characters.
C14_SnippetBounded ==
    \A q \in AnswerReqs :
        answer[q].response.status = HTTP_200_OK
            => /\ Len(answer[q].response.sources) = Len(answer[q].chunks)
               /\ \A n \in DOMAIN answer[q].response.sources :
                      LET text == answer[q].chunks[n].text
                          snippet == answer[q].response.sources[n].text_snippet
                      IN  /\ snippet.len <= 203
                          /\ text.len <= 200 => snippet = text
                          /\ text.len > 200 => snippet.len = 203

C14_Witness ==
    \E q \in AnswerReqs :
        /\ answer[q].response.status = HTTP_200_OK
        /\ \E n \in DOMAIN answer[q].response.sources :
               /\ answer[q].chunks[n].text.len > 200
               /\ answer[q].response.sources[n].text_snippet.len = 203

(***************************************************************************)
(* Properties of ingestion, continued.                                     *)
(***************************************************************************)
\* Request r ended because the store refused the malformed vector of the
\* chunk it was inserting.
RefusedVector(r) ==
    /\ ingest[r].pc = "done"
    /\ ingest[r].raised = "store_chunk"
    /\ ~VectorAccepted(ingest[r].processed_doc.chunks[ingest[r].j + 1].embedding)

\* C15: when the provider returns a wrong-dimension vector for one chunk of
\* a document, that chunk is not stored and the document ends either with
\* every sibling chunk stored (those before and those after the malformed
\* one) or with its row and all of its chunks absent.
C15_MalformedVectorConsistent ==
    \A r \in IngestReqs :
        RefusedVector(r)
            => /\ \A n \in DOMAIN document_chunks :
                      document_chunks[n].embedding.dim = EMBEDDING_DIM
               /\ \/ Absent(ingest[r].document)
                  \/ /\ HasRow(ingest[r].document)
                     /\ Len(ChunksOf(ingest[r].document))
                            = Len(ingest[r].processed_doc.chunks) - 1

(***************************************************************************)
(* Termination.                                                            *)
(*                                                                         *)
(* The steps a request takes on its own or against the store are taken     *)
(* when they can be: reading the upload into the temp file, the commits    *)
(* of store_document and store_chunk, and the search query.  The steps     *)
(* that wait for the model provider (embed_documents inside process_pdf,   *)
(* embed_query, ChatCompletion.create) are made without a timeout          *)
(* argument, so nothing in the code makes them end: they carry no          *)
(* fairness condition.                                                     *)
(***************************************************************************)
Fairness ==
    /\ WF_vars(\E ok \in BOOLEAN : IngestSaveTemp(1, ok))
    /\ WF_vars(\E ok \in BOOLEAN : IngestStoreDocument(1, ok))
    /\ WF_vars(\E ok \in BOOLEAN : IngestStoreChunk(1, ok))
    /\ \A q \in AnswerReqs : WF_vars(\E ok \in BOOLEAN : RetrieveChunks(q, ok))

SpecLive == Init /\ [][Next]_vars /\ Fairness

\* C16: no embedding or generation call blocks a request forever: every
\* request that has started eventually ends, with a result or an error,
\* even when the provider never responds.
C16_RequestsTerminate ==
    /\ \A r \in IngestReqs : (ingest[r].pc # "idle") ~> (ingest[r].pc = "done")
    /\ \A q \in AnswerReqs : (answer[q].pc # "idle") ~> (answer[q].pc = "done")

\* The chunks of a chunk sequence that come from page p, in order.
OnPage(chunks, p) == SelectSeq(chunks, LAMBDA c : c.page_number = p)

Contiguous(chunks) ==
    \A p \in {chunks[n].page_number : n \in DOMAIN chunks} :
        \A k \in DOMAIN OnPage(chunks, p) : OnPage(chunks, p)[k].chunk_index = k - 1

\* C17: the chunks chunk_text produces for a page carry chunk_index 0, 1,
\* ..., n-1 without gap or duplicate, and in the store chunk_index is
\* unique within each (document_id, page_number).
C17_ChunkIndexUnique ==
    /\ \A r \in IngestReqs : Contiguous(ingest[r].processed_doc.chunks)
    /\ \A a, b \in DOMAIN document_chunks :
          (a # b
              /\ document_chunks[a].document_id = document_chunks[b].document_id
              /\ document_chunks[a].page_number = document_chunks[b].page_number)
              => document_chunks[a].chunk_index # document_chunks[b].chunk_index

C17_Witness ==
    \E a, b \in DOMAIN document_chunks :
        /\ a < b
        /\ document_chunks[a].document_id = document_chunks[b].document_id
        /\ document_chunks[a].page_number = document_chunks[b].page_number
        /\ document_chunks[a].chunk_index = 0
        /\ document_chunks[b].chunk_index = 1

(***************************************************************************)
(* Concurrent ingestion: two ingest requests run concurrently with one     *)
(* another, interleaved between their commits.  The first uploads any list *)
(* of files, the second a list of at most MIN_FILES files.                 *)
(***************************************************************************)
NextConcurrent ==
    \/ IngestNext(1)
    \/ IngestNext(2) /\ Len(ingest'[2].files) <= MIN_FILES

SpecConcurrent == Init /\ [][NextConcurrent]_vars

\* What a stored chunk row says about where the chunk comes from.
Provenance(row) ==
    [text |-> row.text, page_number |-> row.page_number,
     chunk_index |-> row.chunk_index]

NoneRunningNoneFailed ==
    \A r \in IngestReqs :
        ingest[r].pc \in {"idle", "done"} /\ ingest[r].raised = "none"

\* C19: under any interleaving of concurrent ingest requests, every chunk
\* that is stored carries the id of the document row the same request
\* created for the same file, and once all requests have ended without a
\* failure every document has exactly the chunks produced from its file.
C19_ChunksAttributedToOwnDocument ==
    /\ [][Len(document_chunks') > Len(document_chunks)
            => \E r \in IngestReqs :
                   LET new == document_chunks'[Len(document_chunks')]
                   IN  /\ ingest[r].pc = "store_chunk"
                       /\ ingest'[r] # ingest[r]
                       /\ new.document_id \in DOMAIN origin
                       /\ origin[new.document_id].req = r
                       /\ origin[new.document_id].file = ingest[r].i
                       /\ Provenance(new) =
                              Provenance(ingest[r].processed_doc.chunks[ingest[r].j + 1])]_vars
    /\ [](NoneRunningNoneFailed
            => \A id \in DOMAIN origin :
                   [n \in DOMAIN ChunksOf(id) |-> Provenance(ChunksOf(id)[n])]
                       = chunk_text(ingest[origin[id].req].files[origin[id].file].pages))

C19_Witness ==
    /\ ingest[1].response.status = HTTP_201_CREATED
    /\ ingest[2].response.status = HTTP_201_CREATED
    /\ ingest[1].files # ingest[2].files
    /\ \E a, b, c \in DOMAIN document_chunks :
           /\ a < b /\ b < c
           /\ origin[document_chunks[a].document_id].req = 1
           /\ origin[document_chunks[b].document_id].req = 2
           /\ origin[document_chunks[c].document_id].req = 1

\* C20: referential integrity holds in every reachable state of the store:
\* the document_id of every stored chunk is the id of a stored document
\* row, for concurrent ingest requests and wherever an ingest fails.
C20_ReferentialIntegrity ==
    \A n \in DOMAIN document_chunks : HasRow(document_chunks[n].document_id)

C20_Witness ==
    \E r, o \in IngestReqs :
        /\ ingest[r].raised = "store_chunk"
        /\ ChunksOf(ingest[r].document) # <<>>
        /\ ingest[o].pc = "store_chunk"
        /\ ChunksOf(ingest[o].document) # <<>>

\* The temporary files request r created that are still on disk.
TempFilesOf(r) == {t \in tmpFiles : t[1] = r}

\* C21: when an ingest request has ended, on whichever exit path (success,
\* a failure in process_pdf, store_document or store_chunk, or a failure
\* while the upload is read and written into the temporary file), none of
\* the temporary files it created is left on disk.
C21_TempFilesRemoved ==
    \A r \in IngestReqs : ingest[r].pc = "done" => TempFilesOf(r) = {}

====
